---- MODULE Spec2Model ----
(***************************************************************************)
(* Model of the session engine of server/game.py: class Game and its       *)
(* subclass OvercookedGame.  One driver thread calls the structural        *)
(* operations (add_player, remove_player, activate, deactivate, tick);     *)
(* client threads call enqueue_action; every activation starts one         *)
(* npc_policy_consumer thread per entry of npc_policies.                   *)
(***************************************************************************)
EXTENDS Integers, Sequences, FiniteSets, TLC

\* ------------------------------------------------------------ bounds
MaxTick == 2        \* ticks per activation explored
MaxTime == 1        \* last clock value (seconds)
MaxQueue == 2       \* pending actions explored in an unbounded mailbox
MaxRelay == 2       \* states explored in an (unbounded) npc state queue
MaxEpoch == 2       \* activations explored
GameTime == 1       \* the gameTime argument of the constructor (seconds)

\* ------------------------------------------------------------ constants of the program
ticks_per_ai_action == 7
reset_timeout == 3000
max_players == 2
NpcBuffSize == 1
DefaultBuffSize == -1

EMPTY == "EMPTY"
Humans == {"h1"}
NoIdx == -1                         \* idx=None

\* action_to_overcooked_action: the keys a client may send and their values
action_to_overcooked_action ==
    [a \in {"STAY", "UP", "SPACE"} |->
        CASE a = "STAY" -> "stay" [] a = "UP" -> "north" [] a = "SPACE" -> "interact"]
ActionSTAY == "stay"
\* what a client sends: two keys of the table, and a string that is no key
RawActions == {"UP", "SPACE", "JUMP"}

\* ------------------------------------------------------------ state
VARIABLES
    players,            \* self.players
    pending_actions,    \* self.pending_actions
    is_active,          \* self._is_active
    human_players,      \* self.human_players
    npc_players,        \* self.npc_players
    npc_policies,       \* keys of self.npc_policies, in insertion order
    npc_state_queues,   \* self.npc_state_queues: npc id -> LifoQueue content
    layouts,            \* len(self.layouts)
    has_state,          \* self.state, self.start_time, self.threads exist
    state,              \* self.state
    start_time,         \* self.start_time
    curr_tick,          \* self.curr_tick
    score,              \* self.score
    threads,            \* self.threads: the consumer threads of the last activate
    now,                \* time()
    driver,             \* where the driver thread is
    clients,            \* where each client thread is inside enqueue_action
    last,               \* the last call that returned or raised, and its outcome
    joint_action,       \* the joint action built by apply_actions, if `last` is a tick
    epoch,              \* number of activate calls that set self.state
    spectators,         \* self.spectators
    traj,               \* self.traj: the cur_gameloop of every recorded transition
    save_traj           \* self.save_traj

vars == <<players, pending_actions, is_active, human_players, npc_players,
          npc_policies, npc_state_queues, layouts, has_state, state,
          start_time, curr_tick, score, threads, now, driver, clients, last,
          joint_action, epoch, spectators, traj, save_traj>>

\* ------------------------------------------------------------ helpers
Max(a, b) == IF a >= b THEN a ELSE b

NpcIds == {"ai_0", "ai_1"}
Ids == Humans \cup NpcIds

\* list.index(x): the 0-based position of the first occurrence of x
IndexOf(pl, x) == (CHOOSE i \in 1..Len(pl) : pl[i] = x /\ \A j \in 1..(i - 1) : pl[j] # x) - 1
Contains(pl, x) == \E i \in 1..Len(pl) : pl[i] = x
SetOf(pl) == {pl[i] : i \in 1..Len(pl)}

\* queue.Queue(maxsize): maxsize <= 0 means unbounded
NewQueue(maxsize) == [vacant |-> FALSE, q |-> <<>>, maxsize |-> maxsize]
\* the EMPTY sentinel stored in pending_actions at a vacant seat
EmptySlot == [vacant |-> TRUE, q |-> <<>>, maxsize |-> 0]
\* mutant: the capacity is never enforced
QueueFull_NeverFull(m) == FALSE
QueueFull(m) == m.maxsize > 0 /\ Len(m.q) >= m.maxsize
QueuePut(m, a) == [m EXCEPT !.q = Append(@, a)]

\* world states are opaque objects: the k-th state of the e-th activation
NoState == [ep |-> 0, n |-> 0]
StartState(e) == [ep |-> e, n |-> 0]

\* mutant: the identities are counted, not the seats
num_players_DistinctIds(pl) == Cardinality(SetOf(pl) \ {EMPTY})
num_players(pl) == Cardinality({i \in 1..Len(pl) : pl[i] # EMPTY})
\* mutant: the session is never full
is_full_Never(pl) == FALSE
is_full(pl) == num_players(pl) >= max_players

max_time == GameTime
curr_game_over == now - start_time >= max_time
\* mutant: the remaining layouts are not looked at
is_finished_IgnoresLayouts == curr_game_over
is_finished == layouts = 0 /\ curr_game_over
needs_reset == curr_game_over /\ ~is_finished

\* Game.add_player: the seat chosen, and the lists after padding and assignment
\* mutant: a vacant seat is never reused, the table always grows
AddIdx_AlwaysAppend(pl, idx) == IF idx \in {NoIdx, 0} THEN Len(pl) ELSE idx
AddIdx(pl, idx) ==
    IF idx \in {NoIdx, 0} /\ Contains(pl, EMPTY) THEN IndexOf(pl, EMPTY)
    ELSE IF idx \in {NoIdx, 0} THEN Len(pl)
    ELSE idx
Padding(pl, i) == Max(0, i - Len(pl) + 1)
AddPlayers(pl, player_id, idx) ==
    LET i == AddIdx(pl, idx)
        padded == pl \o [k \in 1..Padding(pl, i) |-> EMPTY]
    IN [padded EXCEPT ![i + 1] = player_id]
\* mutant: the seats added as padding get a queue instead of the EMPTY sentinel
AddPending_QueueAsPadding(pl, pa, idx, buff_size) ==
    LET i == AddIdx(pl, idx)
        padded == pa \o [k \in 1..Padding(pl, i) |-> NewQueue(buff_size)]
    IN [padded EXCEPT ![i + 1] = NewQueue(buff_size)]
AddPending(pl, pa, idx, buff_size) ==
    LET i == AddIdx(pl, idx)
        padded == pa \o [k \in 1..Padding(pl, i) |-> EmptySlot]
    IN [padded EXCEPT ![i + 1] = NewQueue(buff_size)]

\* OvercookedGame.__init__: the add_player calls for the non-human seats
CtorStart == [players |-> <<>>, pending |-> <<>>, npc |-> {}, pol |-> <<>>]
CtorAdd(s, id, idx) ==
    [players |-> AddPlayers(s.players, id, idx),
     pending |-> AddPending(s.players, s.pending, idx, NpcBuffSize),
     npc |-> s.npc \cup {id},
     pol |-> Append(s.pol, id)]
Ctor(playerZero, playerOne) ==
    LET s1 == IF playerZero # "human" THEN CtorAdd(CtorStart, "ai_0", 0) ELSE CtorStart
    IN IF playerOne # "human" THEN CtorAdd(s1, "ai_1", 1) ELSE s1

Idle == [pc |-> "idle", op |-> "none"]
ClientIdle == [pc |-> "idle", act |-> "none"]
Result(op, who, ret) == [op |-> op, who |-> who, ret |-> ret]

\* the state after OvercookedGame(layouts, playerZero, playerOne, showPotential) with
\* nl layouts; transitions are recorded unless showPotential is 'on'
Constructed(playerZero, playerOne, nl, showPotential) ==
        LET c == Ctor(playerZero, playerOne) IN
        /\ players = c.players
        /\ pending_actions = c.pending
        /\ is_active = FALSE
        /\ human_players = {}
        /\ npc_players = c.npc
        /\ npc_policies = c.pol
        /\ npc_state_queues = [p \in NpcIds |-> <<>>]
        /\ layouts = nl - 1
        /\ has_state = FALSE
        /\ state = NoState
        /\ start_time = 0
        /\ curr_tick = 0
        /\ score = 0
        /\ threads = <<>>
        /\ now = 0
        /\ driver = Idle
        /\ clients = [h \in Humans |-> ClientIdle]
        /\ last = Result("init", "none", "none")
        /\ joint_action = <<>>
        /\ epoch = 0
        /\ spectators = {}
        /\ traj = <<>>
        /\ save_traj = (showPotential # "on")

\* ------------------------------------------------------------ shared pieces
\* Game.clear_pending_actions
Cleared(pa, pl) ==
    [i \in 1..Len(pa) |-> IF pl[i] # EMPTY THEN [pa[i] EXCEPT !.q = <<>>] ELSE pa[i]]

\* LifoQueue.put(state) on the queue of every npc policy
\* mutant: no state reaches the queues
Pushed_Nothing(rq, st) == rq
Pushed(rq, st) ==
    [p \in NpcIds |-> IF Contains(npc_policies, p) THEN Append(rq[p], st) ELSE rq[p]]
RelayRoom(k) == \A p \in NpcIds : Contains(npc_policies, p) => Len(npc_state_queues[p]) + k <= MaxRelay

\* self.threads = [] followed by one Thread(...).start() per npc policy; threads of
\* earlier activations that still run stay alive but are no longer in self.threads
\* `seen` remembers the state the thread took last from its queue
NewThread(p) == [policy |-> p, pc |-> "loop", held |-> NoState, cur |-> TRUE,
                 seen |-> NoState]
Retired(th) ==
    LET live == SelectSeq(th, LAMBDA t : t.pc # "exited")
    IN [k \in 1..Len(live) |-> [live[k] EXCEPT !.cur = FALSE]]
Spawned(th) == Retired(th) \o [k \in 1..Len(npc_policies) |-> NewThread(npc_policies[k])]
\* mutant: deactivate does not wait for the threads
Joined_NoWait == TRUE
Joined == \A k \in 1..Len(threads) : threads[k].cur => threads[k].pc = "exited"

\* the sanity check of OvercookedGame.activate
Consistent == (npc_players \cup human_players) = SetOf(players)

\* mdp.get_state_transition: the next state object and the sparse reward
Transition(st, ja) == [st EXCEPT !.n = @ + 1]
Reward(st, ja) == IF Len(ja) > 0 /\ \A i \in 1..Len(ja) : ja[i] = "interact" THEN 20 ELSE 0

\* policy.act followed by Action.INDEX_TO_ACTION
PolicyAct(st) == IF st.n = 0 THEN "interact" ELSE "north"

\* the drain loop of OvercookedGame.apply_actions: Queue.get(block=False) per seat
\* mutant: the newest pending action is committed instead of the oldest
DrainOne_Newest(m) == IF Len(m.q) > 0 THEN m.q[Len(m.q)] ELSE ActionSTAY
DrainOne(m) == IF Len(m.q) > 0 THEN Head(m.q) ELSE ActionSTAY
Drained(m) == IF Len(m.q) > 0 THEN [m EXCEPT !.q = Tail(@)] ELSE m
FirstVacant(pa) == IF \E i \in 1..Len(pa) : pa[i].vacant
                   THEN CHOOSE i \in 1..Len(pa) : pa[i].vacant /\ \A j \in 1..(i - 1) : ~pa[j].vacant
                   ELSE Len(pa) + 1

\* ------------------------------------------------------------ driver operations
\* OvercookedGame.add_player(player_id, idx) called by the server for a human
AddPlayer(player_id, idx) ==
    /\ driver.pc = "idle"
    /\ IF is_full(players) \/ is_active
       THEN /\ last' = Result("add_player", player_id, "ValueError")
            /\ UNCHANGED <<players, pending_actions, human_players>>
       ELSE /\ players' = AddPlayers(players, player_id, idx)
            /\ pending_actions' = AddPending(players, pending_actions, idx, DefaultBuffSize)
            /\ human_players' = human_players \cup {player_id}
            /\ last' = Result("add_player", player_id, "None")
    /\ joint_action' = <<>>
    /\ UNCHANGED <<is_active, npc_players, npc_policies, npc_state_queues, layouts,
                   has_state, state, start_time, curr_tick, score, threads, now,
                   driver, clients, epoch,
                   spectators, traj, save_traj>>

\* OvercookedGame.remove_player(player_id)
RemovePlayer(player_id) ==
    /\ driver.pc = "idle"
    /\ IF Contains(players, player_id)
       THEN /\ players' = [players EXCEPT ![IndexOf(players, player_id) + 1] = EMPTY]
            /\ pending_actions' =
                   [pending_actions EXCEPT ![IndexOf(players, player_id) + 1] = EmptySlot]
            /\ IF player_id \in human_players
               THEN /\ human_players' = human_players \ {player_id}
                    /\ npc_players' = npc_players
                    /\ last' = Result("remove_player", player_id, "None")
               ELSE IF player_id \in npc_players
               THEN /\ npc_players' = npc_players \ {player_id}
                    /\ human_players' = human_players
                    /\ last' = Result("remove_player", player_id, "None")
               ELSE /\ UNCHANGED <<human_players, npc_players>>
                    /\ last' = Result("remove_player", player_id, "ValueError")
       ELSE /\ UNCHANGED <<players, pending_actions, human_players, npc_players>>
            /\ last' = Result("remove_player", player_id, "None")
    /\ joint_action' = <<>>
    /\ UNCHANGED <<is_active, npc_policies, npc_state_queues, layouts,
                   has_state, state, start_time, curr_tick, score, threads, now,
                   driver, clients, epoch,
                   spectators, traj, save_traj>>

\* Game.add_spectator(spectator_id)
AddSpectator(spectator_id) ==
    /\ driver.pc = "idle"
    /\ IF Contains(players, spectator_id)
       THEN /\ last' = Result("add_spectator", spectator_id, "ValueError")
            /\ UNCHANGED spectators
       ELSE /\ spectators' = spectators \cup {spectator_id}
            /\ last' = Result("add_spectator", spectator_id, "None")
    /\ joint_action' = <<>>
    /\ UNCHANGED <<players, pending_actions, is_active, human_players, npc_players,
                   npc_policies, npc_state_queues, layouts, has_state, state,
                   start_time, curr_tick, score, threads, now, driver, clients, epoch,
                   traj, save_traj>>

\* Game.remove_spectator(spectator_id): self.spectators is a set, whose remove() raises
\* KeyError for a missing element; the handler catches ValueError only
RemoveSpectator(spectator_id) ==
    /\ driver.pc = "idle"
    /\ IF spectator_id \in spectators
       THEN /\ spectators' = spectators \ {spectator_id}
            /\ last' = Result("remove_spectator", spectator_id, "True")
       ELSE /\ last' = Result("remove_spectator", spectator_id, "KeyError")
            /\ UNCHANGED spectators
    /\ joint_action' = <<>>
    /\ UNCHANGED <<players, pending_actions, is_active, human_players, npc_players,
                   npc_policies, npc_state_queues, layouts, has_state, state,
                   start_time, curr_tick, score, threads, now, driver, clients, epoch,
                   traj, save_traj>>

\* OvercookedGame.activate()
Activate ==
    /\ driver.pc = "idle"
    /\ is_active' = TRUE
    /\ IF Consistent
       THEN /\ state' = StartState(epoch + 1)
            /\ epoch' = epoch + 1
            /\ has_state' = TRUE
            /\ start_time' = now
            /\ curr_tick' = 0
            /\ score' = 0
            /\ npc_state_queues' = Pushed(npc_state_queues, StartState(epoch + 1))
            /\ threads' = Spawned(threads)
            /\ last' = Result("activate", "none", "None")
       ELSE /\ last' = Result("activate", "none", "ValueError")
            /\ UNCHANGED <<state, epoch, has_state, start_time, curr_tick, score,
                           npc_state_queues, threads>>
    /\ joint_action' = <<>>
    /\ UNCHANGED <<players, pending_actions, human_players, npc_players, npc_policies,
                   layouts, now, driver, clients,
                   spectators, traj, save_traj>>

\* OvercookedGame.deactivate() up to the join loop
DeactivateBegin ==
    /\ driver.pc = "idle"
    /\ is_active' = FALSE
    /\ IF has_state
       THEN /\ npc_state_queues' = Pushed(npc_state_queues, state)
            /\ driver' = [pc |-> "join", op |-> "deactivate"]
            /\ UNCHANGED <<last, joint_action>>
       ELSE /\ last' = Result("deactivate", "none", "AttributeError")
            /\ joint_action' = <<>>
            /\ UNCHANGED <<npc_state_queues, driver>>
    /\ UNCHANGED <<players, pending_actions, human_players, npc_players, npc_policies,
                   layouts, has_state, state, start_time, curr_tick, score, threads,
                   now, clients, epoch,
                   spectators, traj, save_traj>>

\* OvercookedGame.reset: self.start_time += self.reset_timeout / 1000, applied to the
\* start_time = time() of the activate() that Game.reset has just run
\* mutant: the start time is not moved by the pause
ResetStart_NoShift(t) == t
ResetStart(t) == t + (reset_timeout \div 1000)

\* get_state()['time_left'] and the time_elapsed of a transition, read at time t
time_left(t) == Max(max_time - (t - start_time), 0)
time_elapsed(t) == t - start_time

\* OvercookedGame.reset() called by the driver itself: Game.reset raises on a session
\* that is not active, returns DONE on a finished one and otherwise runs deactivate()
\* up to its join loop (JoinDone is the rest); OvercookedGame.reset has no return
\* statement, so a call that does not raise returns None
ResetCall ==
    /\ driver.pc = "idle"
    /\ IF ~is_active
       THEN /\ last' = Result("reset", "none", "ValueError")
            /\ joint_action' = <<>>
            /\ UNCHANGED <<is_active, npc_state_queues, driver>>
       ELSE IF ~has_state
       THEN \* is_finished() reads self.start_time when no layout is left, and
            \* deactivate() reads self.state after it has cleared _is_active
            /\ is_active' = (layouts = 0)
            /\ last' = Result("reset", "none", "AttributeError")
            /\ joint_action' = <<>>
            /\ UNCHANGED <<npc_state_queues, driver>>
       ELSE IF is_finished
       THEN /\ last' = Result("reset", "none", "None")
            /\ joint_action' = <<>>
            /\ UNCHANGED <<is_active, npc_state_queues, driver>>
       ELSE /\ is_active' = FALSE
            /\ npc_state_queues' = Pushed(npc_state_queues, state)
            /\ driver' = [pc |-> "join", op |-> "resetcall"]
            /\ UNCHANGED <<last, joint_action>>
    /\ UNCHANGED <<players, pending_actions, human_players, npc_players, npc_policies,
                   layouts, has_state, state, start_time, curr_tick, score, threads,
                   now, clients, epoch, spectators, traj, save_traj>>

\* the rest of deactivate() once every thread of self.threads has been joined; inside
\* Game.reset it is followed by activate() and the start_time shift of OvercookedGame.reset
JoinDone ==
    /\ driver.pc = "join"
    /\ Joined
    /\ driver' = Idle
    /\ IF driver.op = "deactivate"
       THEN /\ pending_actions' = Cleared(pending_actions, players)
            /\ last' = Result("deactivate", "none", "None")
            /\ UNCHANGED <<is_active, state, epoch, has_state, start_time, curr_tick,
                           score, npc_state_queues, threads>>
       ELSE /\ pending_actions' = Cleared(pending_actions, players)
            /\ is_active' = TRUE
            /\ IF Consistent
               THEN /\ state' = StartState(epoch + 1)
                    /\ epoch' = epoch + 1
                    /\ has_state' = TRUE
                    /\ start_time' = ResetStart(now)
                    /\ curr_tick' = 0
                    /\ score' = 0
                    /\ npc_state_queues' = Pushed(npc_state_queues, StartState(epoch + 1))
                    /\ threads' = Spawned(threads)
                    /\ last' = IF driver.op = "reset"
                               THEN Result("tick", "none", "RESET")
                               ELSE Result("reset", "none", "None")
               ELSE /\ last' = Result(IF driver.op = "reset" THEN "tick" ELSE "reset",
                                      "none", "ValueError")
                    /\ UNCHANGED <<state, epoch, has_state, start_time, curr_tick, score,
                                   npc_state_queues, threads>>
    /\ joint_action' = <<>>
    /\ UNCHANGED <<players, human_players, npc_players, npc_policies, layouts, now,
                   clients,
                   spectators, traj, save_traj>>

\* The reset of a tick in the two steps its caller can be overtaken between: the end
\* of deactivate() (every thread joined, clear_pending_actions) ...
ResetCleared ==
    /\ driver.pc = "join" /\ driver.op = "reset"
    /\ Joined
    /\ pending_actions' = Cleared(pending_actions, players)
    /\ driver' = [pc |-> "activate", op |-> "reset"]
    /\ UNCHANGED <<players, is_active, human_players, npc_players, npc_policies,
                   npc_state_queues, layouts, has_state, state, start_time, curr_tick,
                   score, threads, now, clients, last, joint_action, epoch,
                   spectators, traj, save_traj>>

\* ... and activate(), the start_time shift of OvercookedGame.reset and the return of
\* RESET by Game.tick
ResetActivated ==
    /\ driver.pc = "activate" /\ driver.op = "reset"
    /\ driver' = Idle
    /\ is_active' = TRUE
    /\ IF Consistent
       THEN /\ state' = StartState(epoch + 1)
            /\ epoch' = epoch + 1
            /\ has_state' = TRUE
            /\ start_time' = ResetStart(now)
            /\ curr_tick' = 0
            /\ score' = 0
            /\ npc_state_queues' = Pushed(npc_state_queues, StartState(epoch + 1))
            /\ threads' = Spawned(threads)
            /\ last' = Result("tick", "none", "RESET")
       ELSE /\ last' = Result("tick", "none", "ValueError")
            /\ UNCHANGED <<state, epoch, has_state, start_time, curr_tick, score,
                           npc_state_queues, threads>>
    /\ joint_action' = <<>>
    /\ UNCHANGED <<players, pending_actions, human_players, npc_players, npc_policies,
                   layouts, now, clients, spectators, traj, save_traj>>

\* the joint action built by the drain loop; the loop stops at the first vacant seat,
\* whose EMPTY sentinel has no get()
JointAction(pa) ==
    [i \in 1..Len(pa) |-> IF i < FirstVacant(pa) THEN DrainOne(pa[i]) ELSE ActionSTAY]
DrainAll(pa) ==
    [i \in 1..Len(pa) |-> IF i < FirstVacant(pa) THEN Drained(pa[i]) ELSE pa[i]]
\* mutant: the stride is ignored, every tick pushes
PushDue_EveryTick(tick) == TRUE
PushDue(tick) == tick % ticks_per_ai_action = 0

\* self.traj.append(transition): the record is identified by its cur_gameloop
\* mutant: the transition is not recorded
Recorded_Nothing(tr, tick) == tr
Recorded(tr, tick) == Append(tr, tick)

\* self.score += curr_reward
\* mutant: the reward overwrites the score
Scored_Overwritten(sc, r) == r
Scored(sc, r) == sc + r

\* self.curr_tick += 1
\* mutant: tick() does not count
Ticked_NotCounted(t) == t
Ticked(t) == t + 1

\* mutant: the early return is missing and the world model is stepped
TickInactive_NoEarlyReturn ==
    /\ driver.pc = "idle"
    /\ ~is_active
    /\ curr_tick' = Ticked(curr_tick)
    /\ state' = Transition(state, <<>>)
    /\ last' = Result("tick", "none", "INACTIVE")
    /\ joint_action' = <<>>
    /\ UNCHANGED <<players, pending_actions, is_active, human_players, npc_players,
                   npc_policies, npc_state_queues, layouts, has_state,
                   start_time, score, threads, now, driver, clients, epoch,
                   spectators, traj, save_traj>>

\* OvercookedGame.tick() on a session that is not active
TickInactive ==
    /\ driver.pc = "idle"
    /\ ~is_active
    /\ curr_tick' = Ticked(curr_tick)
    /\ last' = Result("tick", "none", "INACTIVE")
    /\ joint_action' = <<>>
    /\ UNCHANGED <<players, pending_actions, is_active, human_players, npc_players,
                   npc_policies, npc_state_queues, layouts, has_state, state,
                   start_time, score, threads, now, driver, clients, epoch,
                   spectators, traj, save_traj>>

\* OvercookedGame.tick() when needs_reset() holds: Game.reset() runs deactivate() up
\* to its join loop (JoinDone is the rest)
TickReset ==
    /\ driver.pc = "idle"
    /\ is_active /\ has_state /\ needs_reset
    /\ curr_tick' = Ticked(curr_tick)
    /\ is_active' = FALSE
    /\ npc_state_queues' = Pushed(npc_state_queues, state)
    /\ driver' = [pc |-> "join", op |-> "reset"]
    /\ UNCHANGED <<players, pending_actions, human_players, npc_players, npc_policies,
                   layouts, has_state, state, start_time, score, threads, now,
                   clients, last, joint_action, epoch,
                   spectators, traj, save_traj>>

\* OvercookedGame.tick() on an active session without reset: apply_actions() and the
\* status returned by Game.tick
TickCommit ==
    /\ driver.pc = "idle"
    /\ is_active
    /\ has_state => ~needs_reset
    /\ curr_tick' = Ticked(curr_tick)
    /\ IF ~has_state
       THEN \* needs_reset() reads self.start_time, which activate never set
            /\ last' = Result("tick", "none", "AttributeError")
            /\ joint_action' = <<>>
            /\ UNCHANGED <<pending_actions, state, npc_state_queues, score, traj>>
       ELSE /\ joint_action' = JointAction(pending_actions)
            /\ pending_actions' = DrainAll(pending_actions)
            /\ IF FirstVacant(pending_actions) <= Len(pending_actions)
               THEN /\ last' = Result("tick", "none", "AttributeError")
                    /\ UNCHANGED <<state, npc_state_queues, score, traj>>
               ELSE /\ state' = Transition(state, JointAction(pending_actions))
                    /\ npc_state_queues' =
                           IF PushDue(Ticked(curr_tick))
                           THEN Pushed(npc_state_queues,
                                       Transition(state, JointAction(pending_actions)))
                           ELSE npc_state_queues
                    /\ score' = Scored(score, Reward(state, JointAction(pending_actions)))
                    /\ IF save_traj /\ Len(players) < 2
                       THEN \* the transition record reads self.players[0] and [1]
                            /\ last' = Result("tick", "none", "IndexError")
                            /\ UNCHANGED traj
                       ELSE /\ traj' = IF save_traj THEN Recorded(traj, Ticked(curr_tick))
                                                    ELSE traj
                            /\ last' = Result("tick", "none",
                                              IF is_finished THEN "DONE" ELSE "ACTIVE")
    /\ UNCHANGED <<players, is_active, human_players, npc_players, npc_policies,
                   layouts, has_state, start_time, threads, now, driver, clients, epoch,
                   spectators, save_traj>>

\* ------------------------------------------------------------ npc_policy_consumer
SetThread(k, pc, held) == threads' = [threads EXCEPT ![k].pc = pc, ![k].held = held]
\* mutant: a step of the consumer thread clears the score of the session
WorkerFrame_ClearsScore ==
    /\ score' = 0
    /\ UNCHANGED <<players, is_active, human_players, npc_players, npc_policies,
                   layouts, has_state, state, start_time, curr_tick, now,
                   driver, clients, last, joint_action, epoch,
                   spectators, traj, save_traj>>
\* what no statement of npc_policy_consumer assigns
WorkerFrame == UNCHANGED <<players, is_active, human_players, npc_players, npc_policies,
                           layouts, has_state, state, start_time, curr_tick, score, now,
                           driver, clients, last, joint_action, epoch,
                   spectators, traj, save_traj>>

\* while self._is_active
WorkerLoop(k) ==
    /\ threads[k].pc = "loop"
    /\ IF is_active
       THEN SetThread(k, "get", NoState)
       ELSE threads' = [threads EXCEPT ![k].pc = "exited", ![k].held = NoState,
                                       ![k].seen = NoState]
    /\ UNCHANGED <<pending_actions, npc_state_queues>>
    /\ WorkerFrame

\* state = queue.get(): blocks while the LifoQueue is empty, takes the newest entry
WorkerGet(k) ==
    LET rq == npc_state_queues[threads[k].policy] IN
    /\ threads[k].pc = "get"
    /\ Len(rq) > 0
    /\ threads' = [threads EXCEPT ![k].pc = "act", ![k].held = rq[Len(rq)],
                                  ![k].seen = rq[Len(rq)]]
    /\ npc_state_queues' =
           [npc_state_queues EXCEPT ![threads[k].policy] = SubSeq(rq, 1, Len(rq) - 1)]
    /\ UNCHANGED pending_actions
    /\ WorkerFrame

\* policy.act(...) returns, then the two early returns of Game.enqueue_action
WorkerAct(k) ==
    /\ threads[k].pc = "act"
    /\ IF is_active /\ Contains(players, threads[k].policy)
       THEN SetThread(k, "put", threads[k].held)
       ELSE SetThread(k, "loop", NoState)
    /\ UNCHANGED <<pending_actions, npc_state_queues>>
    /\ WorkerFrame

\* self.pending_actions[self.players.index(policy_id)].put(action): Queue.put blocks
\* while the queue is full; players.index raises ValueError, which ends the thread
WorkerPut(k) ==
    LET id == threads[k].policy IN
    /\ threads[k].pc = "put"
    /\ IF Contains(players, id)
       THEN /\ ~QueueFull(pending_actions[IndexOf(players, id) + 1])
            /\ pending_actions' =
                   [pending_actions EXCEPT ![IndexOf(players, id) + 1] =
                        QueuePut(@, PolicyAct(threads[k].held))]
            /\ SetThread(k, "loop", NoState)
       ELSE /\ threads' = [threads EXCEPT ![k].pc = "exited", ![k].held = NoState,
                                            ![k].seen = NoState]
            /\ UNCHANGED pending_actions
    /\ UNCHANGED npc_state_queues
    /\ WorkerFrame

\* ------------------------------------------------------------ enqueue_action by clients
ClientFrame == UNCHANGED <<players, is_active, human_players, npc_players, npc_policies,
                           npc_state_queues, layouts, has_state, state, start_time,
                           curr_tick, score, threads, now, driver, epoch,
                   spectators, traj, save_traj>>

\* mutant: the check that player_id is in self.players is missing
ClientCall_NoSeatCheck(player_id, action) ==
    /\ clients[player_id].pc = "idle"
    /\ IF action \notin DOMAIN action_to_overcooked_action
       THEN /\ last' = Result("enqueue_action", player_id, "KeyError")
            /\ joint_action' = <<>>
            /\ UNCHANGED clients
       ELSE IF ~is_active
       THEN /\ last' = Result("enqueue_action", player_id, "None")
            /\ joint_action' = <<>>
            /\ UNCHANGED clients
       ELSE /\ clients' = [clients EXCEPT ![player_id] =
                              [pc |-> "put", act |-> action_to_overcooked_action[action]]]
            /\ UNCHANGED <<last, joint_action>>
    /\ UNCHANGED pending_actions
    /\ ClientFrame

\* OvercookedGame.enqueue_action(player_id, action): the table lookup and the two early
\* returns of Game.enqueue_action
ClientCall(player_id, action) ==
    /\ clients[player_id].pc = "idle"
    /\ IF action \notin DOMAIN action_to_overcooked_action
       THEN /\ last' = Result("enqueue_action", player_id, "KeyError")
            /\ joint_action' = <<>>
            /\ UNCHANGED clients
       ELSE IF ~is_active \/ ~Contains(players, player_id)
       THEN /\ last' = Result("enqueue_action", player_id, "None")
            /\ joint_action' = <<>>
            /\ UNCHANGED clients
       ELSE /\ clients' = [clients EXCEPT ![player_id] =
                              [pc |-> "put", act |-> action_to_overcooked_action[action]]]
            /\ UNCHANGED <<last, joint_action>>
    /\ UNCHANGED pending_actions
    /\ ClientFrame

\* the try block of Game.enqueue_action: players.index (ValueError is not caught) and
\* Queue.put, which blocks while the queue is full
ClientPut(player_id) ==
    /\ clients[player_id].pc = "put"
    /\ IF Contains(players, player_id)
       THEN /\ ~QueueFull(pending_actions[IndexOf(players, player_id) + 1])
            /\ pending_actions' =
                   [pending_actions EXCEPT ![IndexOf(players, player_id) + 1] =
                        QueuePut(@, clients[player_id].act)]
            /\ last' = Result("enqueue_action", player_id, "None")
       ELSE /\ last' = Result("enqueue_action", player_id, "ValueError")
            /\ UNCHANGED pending_actions
    /\ clients' = [clients EXCEPT ![player_id] = ClientIdle]
    /\ joint_action' = <<>>
    /\ ClientFrame

\* ------------------------------------------------------------ time()
Advance ==
    /\ now' = now + 1
    /\ UNCHANGED <<players, pending_actions, is_active, human_players, npc_players,
                   npc_policies, npc_state_queues, layouts, has_state, state,
                   start_time, curr_tick, score, threads, driver, clients, last,
                   joint_action, epoch,
                   spectators, traj, save_traj>>

\* ------------------------------------------------------------ specification
\* The session of the scenario of one human and one autonomous participant, with two
\* layouts so that rounds are reset; the guards keep the unbounded counters finite.
\* The driver activates only a session that is not active (Game.reset deactivates
\* before it activates again).
Init == \E cfg \in {<<"human", "ai">>, <<"ai", "human">>} : Constructed(cfg[1], cfg[2], 2, "on")

QueueRoom(id) == Contains(players, id) =>
                     Len(pending_actions[IndexOf(players, id) + 1].q) < MaxQueue

Next ==
    \/ \E id \in Humans : AddPlayer(id, NoIdx)
    \/ \E id \in Humans : RemovePlayer(id)
    \/ (~is_active /\ epoch < MaxEpoch /\ RelayRoom(1) /\ Activate)
    \/ (RelayRoom(1) /\ DeactivateBegin)
    \/ JoinDone
    \/ (curr_tick < MaxTick /\ TickInactive)
    \/ (curr_tick < MaxTick /\ epoch < MaxEpoch /\ RelayRoom(2) /\ TickReset)
    \/ (curr_tick < MaxTick /\ RelayRoom(1) /\ TickCommit)
    \/ \E k \in 1..Len(threads) : WorkerLoop(k)
    \/ \E k \in 1..Len(threads) : WorkerGet(k)
    \/ \E k \in 1..Len(threads) : WorkerAct(k)
    \/ \E k \in 1..Len(threads) : WorkerPut(k)
    \/ \E id \in Humans, a \in RawActions : (QueueRoom(id) /\ ClientCall(id, a))
    \/ \E id \in Humans : ClientPut(id)
    \/ (now < MaxTime /\ Advance)

Spec == Init /\ [][Next]_vars

\* The rounds of a session with an autonomous participant in seat 0 and the human seat
\* not yet taken: no seat is vacated and no client sends input, the clock runs long
\* enough for a round to expire, for the pause after a reset to elapse and for the next
\* round to expire; with one layout the session finishes instead of resetting.
RoundsMaxTime == 5      \* last clock value (seconds)
RoundsMaxTick == 2      \* ticks per activation explored
RoundsMaxEpoch == 3     \* activations explored

InitRounds ==
    \E nl \in {1, 2} : Constructed("ai", "human", nl, "on")

NextRounds ==
    \/ (~is_active /\ epoch < RoundsMaxEpoch /\ RelayRoom(1) /\ Activate)
    \/ (RelayRoom(1) /\ DeactivateBegin)
    \/ JoinDone
    \/ (curr_tick < RoundsMaxTick /\ TickInactive)
    \/ (curr_tick < RoundsMaxTick /\ epoch < RoundsMaxEpoch /\ RelayRoom(2) /\ TickReset)
    \/ (curr_tick < RoundsMaxTick /\ RelayRoom(1) /\ TickCommit)
    \/ \E k \in 1..Len(threads) : WorkerLoop(k)
    \/ \E k \in 1..Len(threads) : WorkerGet(k)
    \/ \E k \in 1..Len(threads) : WorkerAct(k)
    \/ \E k \in 1..Len(threads) : WorkerPut(k)
    \/ (now < RoundsMaxTime /\ Advance)

SpecRounds == InitRounds /\ [][NextRounds]_vars

\* The rounds of the same session when the driver also calls reset() itself, on an
\* active, a finished and an inactive session.
ResetMaxTime == 2       \* last clock value (seconds)
ResetMaxTick == 2       \* ticks per activation explored
ResetMaxEpoch == 2      \* activations explored

NextReset ==
    \/ (~is_active /\ epoch < ResetMaxEpoch /\ RelayRoom(1) /\ Activate)
    \/ (RelayRoom(1) /\ DeactivateBegin)
    \/ (epoch < ResetMaxEpoch /\ RelayRoom(2) /\ ResetCall)
    \/ JoinDone
    \/ (curr_tick < ResetMaxTick /\ TickInactive)
    \/ (curr_tick < ResetMaxTick /\ epoch < ResetMaxEpoch /\ RelayRoom(2) /\ TickReset)
    \/ (curr_tick < ResetMaxTick /\ RelayRoom(1) /\ TickCommit)
    \/ \E k \in 1..Len(threads) : WorkerLoop(k)
    \/ \E k \in 1..Len(threads) : WorkerGet(k)
    \/ \E k \in 1..Len(threads) : WorkerAct(k)
    \/ \E k \in 1..Len(threads) : WorkerPut(k)
    \/ (now < ResetMaxTime /\ Advance)

SpecReset == InitRounds /\ [][NextReset]_vars

\* The trajectory of a session built with and without logging (showPotential other
\* than 'on' enables it), with one or two seats taken, under every operation of the
\* driver, the consumer threads and a client.
TrajMaxTime == 1        \* last clock value (seconds)
TrajMaxTick == 2        \* ticks per activation explored
TrajMaxEpoch == 2       \* activations explored
ShowPotential == {"on", "off"}

InitTraj ==
    \E cfg \in {<<"human", "ai">>, <<"human", "human">>}, sp \in ShowPotential :
        Constructed(cfg[1], cfg[2], 2, sp)

NextTraj ==
    \/ \E id \in Humans : AddPlayer(id, NoIdx)
    \/ \E id \in Humans : RemovePlayer(id)
    \/ (~is_active /\ epoch < TrajMaxEpoch /\ RelayRoom(1) /\ Activate)
    \/ (RelayRoom(1) /\ DeactivateBegin)
    \/ JoinDone
    \/ (curr_tick < TrajMaxTick /\ TickInactive)
    \/ (curr_tick < TrajMaxTick /\ epoch < TrajMaxEpoch /\ RelayRoom(2) /\ TickReset)
    \/ (curr_tick < TrajMaxTick /\ RelayRoom(1) /\ TickCommit)
    \/ \E k \in 1..Len(threads) : WorkerLoop(k)
    \/ \E k \in 1..Len(threads) : WorkerGet(k)
    \/ \E k \in 1..Len(threads) : WorkerAct(k)
    \/ \E k \in 1..Len(threads) : WorkerPut(k)
    \/ \E id \in Humans : (QueueRoom(id) /\ ClientCall(id, "UP"))
    \/ \E id \in Humans : ClientPut(id)
    \/ (now < TrajMaxTime /\ Advance)

SpecTraj == InitTraj /\ [][NextTraj]_vars

\* The rounds of the session of one human and one autonomous participant while the
\* human's client sends input, with the reset of a tick taken in its two steps.
RaceMaxTime == 1        \* last clock value (seconds)
RaceMaxTick == 2        \* ticks per activation explored
RaceMaxEpoch == 2       \* activations explored

InitRace == Constructed("human", "ai", 2, "on")

NextRace ==
    \/ \E id \in Humans : AddPlayer(id, NoIdx)
    \/ (~is_active /\ epoch < RaceMaxEpoch /\ RelayRoom(1) /\ Activate)
    \/ (curr_tick < RaceMaxTick /\ epoch < RaceMaxEpoch /\ RelayRoom(2) /\ TickReset)
    \/ ResetCleared
    \/ ResetActivated
    \/ (curr_tick < RaceMaxTick /\ RelayRoom(1) /\ TickCommit)
    \/ \E k \in 1..Len(threads) : WorkerLoop(k)
    \/ \E k \in 1..Len(threads) : WorkerGet(k)
    \/ \E k \in 1..Len(threads) : WorkerAct(k)
    \/ \E k \in 1..Len(threads) : WorkerPut(k)
    \/ \E id \in Humans : (QueueRoom(id) /\ ClientCall(id, "UP"))
    \/ \E id \in Humans : ClientPut(id)
    \/ (now < RaceMaxTime /\ Advance)

SpecRace == InitRace /\ [][NextRace]_vars

\* One activation of the capacity-2 session of one human and one autonomous
\* participant, ticked through a whole stride while the human sends input at any
\* rate; the clock stands still, so the round does not expire.
StrideMaxTick == 7      \* ticks explored: one stride
StrideMaxEpoch == 1     \* activations explored

InitStride == Constructed("human", "ai", 1, "on")

WorkerStep == \E k \in 1..Len(threads) :
                  WorkerLoop(k) \/ WorkerGet(k) \/ WorkerAct(k) \/ WorkerPut(k)

NextStride ==
    \/ \E id \in Humans : AddPlayer(id, NoIdx)
    \/ (~is_active /\ epoch < StrideMaxEpoch /\ Activate)
    \/ (curr_tick < StrideMaxTick /\ TickInactive)
    \/ (curr_tick < StrideMaxTick /\ TickCommit)
    \/ \E k \in 1..Len(threads) : WorkerLoop(k)
    \/ \E k \in 1..Len(threads) : WorkerGet(k)
    \/ \E k \in 1..Len(threads) : WorkerAct(k)
    \/ \E k \in 1..Len(threads) : WorkerPut(k)
    \/ \E id \in Humans : (QueueRoom(id) /\ ClientCall(id, "UP"))
    \/ \E id \in Humans : ClientPut(id)

SpecStride == InitStride /\ [][NextStride]_vars

\* the same with a fairly scheduled consumer thread whose policy calls return: a step
\* of the thread that stays possible is eventually taken
SpecStrideFair == InitStride /\ [][NextStride]_vars /\ WF_vars(WorkerStep)

\* A session that is activated once, at time 0, and then only ticked while time
\* advances: the driver keeps calling tick, the clock keeps running, the consumer
\* thread is scheduled and the join of a reset returns once the thread has exited.
\* The bounds leave room for one reset more than there are layouts.
FinishMaxTime == 9      \* last clock value (seconds)
FinishMaxTick == 1      \* ticks explored per round before the round's time is over
FinishMaxEpoch == 3     \* activations explored

FinishActivate == epoch = 0 /\ now = 0 /\ ~is_active /\ Activate
FinishTick ==
    /\ is_active /\ has_state
    /\ curr_tick < FinishMaxTick \/ curr_game_over
    /\ last # Result("tick", "none", "DONE")
    /\ \/ (epoch < FinishMaxEpoch /\ TickReset)
       \/ TickCommit
FinishAdvance == now < FinishMaxTime /\ Advance

NextFinish ==
    \/ FinishActivate
    \/ FinishTick
    \/ JoinDone
    \/ \E k \in 1..Len(threads) : WorkerLoop(k)
    \/ \E k \in 1..Len(threads) : WorkerGet(k)
    \/ \E k \in 1..Len(threads) : WorkerAct(k)
    \/ \E k \in 1..Len(threads) : WorkerPut(k)
    \/ FinishAdvance

SpecFinish ==
    /\ InitRounds /\ [][NextFinish]_vars
    /\ WF_vars(FinishTick) /\ WF_vars(JoinDone) /\ WF_vars(WorkerStep)
    /\ WF_vars(FinishAdvance)

\* The threads of a session whose driver calls activate() in any state of the session,
\* also on one that is already active.
ThreadsMaxTime == 1     \* last clock value (seconds)
ThreadsMaxTick == 1     \* ticks per activation explored
ThreadsMaxEpoch == 2    \* activations explored

NextThreads ==
    \/ (epoch < ThreadsMaxEpoch /\ RelayRoom(1) /\ Activate)
    \/ (RelayRoom(1) /\ DeactivateBegin)
    \/ JoinDone
    \/ (curr_tick < ThreadsMaxTick /\ TickInactive)
    \/ (curr_tick < ThreadsMaxTick /\ epoch < ThreadsMaxEpoch /\ RelayRoom(2) /\ TickReset)
    \/ (curr_tick < ThreadsMaxTick /\ RelayRoom(1) /\ TickCommit)
    \/ \E k \in 1..Len(threads) : WorkerLoop(k)
    \/ \E k \in 1..Len(threads) : WorkerGet(k)
    \/ \E k \in 1..Len(threads) : WorkerAct(k)
    \/ \E k \in 1..Len(threads) : WorkerPut(k)
    \/ (now < ThreadsMaxTime /\ Advance)

SpecThreads == InitRounds /\ [][NextThreads]_vars

\* The seat table under the structural operations of the driver: two humans come and
\* go, with and without an explicit seat index, autonomous participants can be removed
\* as well, and the session is activated and deactivated in between; no tick, no
\* client input, the clock stands still.
SeatHumans == {"h1", "h2"}
SeatIdx == {NoIdx, 1}

InitSeats ==
    \E cfg \in {<<"human", "human">>, <<"ai", "human">>, <<"human", "ai">>} :
        Constructed(cfg[1], cfg[2], 1, "on")

NextSeats ==
    \/ \E id \in SeatHumans, idx \in SeatIdx : AddPlayer(id, idx)
    \/ \E id \in SeatHumans \cup NpcIds : RemovePlayer(id)
    \/ (~is_active /\ epoch < MaxEpoch /\ RelayRoom(1) /\ Activate)
    \/ (RelayRoom(1) /\ DeactivateBegin)
    \/ JoinDone
    \/ \E k \in 1..Len(threads) : WorkerLoop(k)
    \/ \E k \in 1..Len(threads) : WorkerGet(k)
    \/ \E k \in 1..Len(threads) : WorkerAct(k)
    \/ \E k \in 1..Len(threads) : WorkerPut(k)

SpecSeats == InitSeats /\ [][NextSeats]_vars

\* The spectators of the same sessions: the two humans come and go as spectators and
\* as participants, before the session is activated.
NextSpectators ==
    \/ \E id \in SeatHumans : AddPlayer(id, NoIdx)
    \/ \E id \in SeatHumans : RemovePlayer(id)
    \/ \E id \in SeatHumans : AddSpectator(id)
    \/ \E id \in SeatHumans : RemoveSpectator(id)

SpecSpectators == InitSeats /\ [][NextSpectators]_vars

\* The seat table when add_player is called with any seat index up to one beyond the
\* capacity, so that the table grows longer than the capacity.
TableIdx == {NoIdx, 0, 1, 2}

NextTable ==
    \/ \E id \in SeatHumans, idx \in TableIdx : AddPlayer(id, idx)
    \/ \E id \in SeatHumans \cup NpcIds : RemovePlayer(id)

SpecTable == InitSeats /\ [][NextTable]_vars

\* ------------------------------------------------------------ claims
WorkerCanStep(k) == ENABLED (WorkerLoop(k) \/ WorkerGet(k) \/ WorkerAct(k) \/ WorkerPut(k))
TickCall == TickInactive \/ TickReset \/ TickCommit
SeatOf(id) == IndexOf(players, id) + 1

\* C1: enqueue_action never blocks its caller: a thread that has reached the put of
\* enqueue_action can always complete the call, also when the mailbox is full.
C1_EnqueueNeverBlocks ==
    /\ \A k \in 1..Len(threads) : threads[k].pc = "put" => ENABLED WorkerPut(k)
    /\ \A id \in Humans : clients[id].pc = "put" => ENABLED ClientPut(id)

\* C2: a deactivate() that has been invoked eventually returns: while it waits in its
\* join loop, either it can return or a thread it waits for can take a step.
C2_DeactivateCanReturn ==
    driver.pc = "join" =>
        \/ Joined
        \/ \E k \in 1..Len(threads) :
               threads[k].cur /\ threads[k].pc # "exited" /\ WorkerCanStep(k)

\* C3: activate() immediately followed by deactivate(), with no tick in between,
\* terminates: the deactivate that follows a successful activate is never stuck in
\* its join loop.
C3_RoundTripTerminates ==
    (/\ driver = [pc |-> "join", op |-> "deactivate"]
     /\ last = Result("activate", "none", "None")
     /\ curr_tick = 0)
    => \A k \in 1..Len(threads) :
           (threads[k].cur /\ threads[k].pc # "exited") => WorkerCanStep(k)

C5_FailedActivateNotActive ==
    last = Result("activate", "none", "ValueError") => ~is_active

\* C6: a tick on an ACTIVE session that does not reset never fails, and its joint
\* action has one entry per seat of the table: the action drained from the seat's
\* mailbox, or STAY for a seat whose mailbox yields nothing.
C6_CompleteJointAction ==
    [][(TickCall /\ is_active /\ has_state /\ ~needs_reset) =>
          /\ last'.ret \in {"ACTIVE", "DONE"}
          /\ Len(joint_action') = Len(players)
          /\ \A i \in 1..Len(players) :
                 joint_action'[i] = IF Len(pending_actions[i].q) > 0
                                    THEN Head(pending_actions[i].q)
                                    ELSE ActionSTAY]_vars

\* C7: the number of pending actions of a mailbox never exceeds its configured
\* capacity (a maxsize <= 0 configures no capacity).
C7_MailboxWithinCapacity ==
    \A i \in 1..Len(pending_actions) :
        (~pending_actions[i].vacant /\ pending_actions[i].maxsize > 0)
            => Len(pending_actions[i].q) <= pending_actions[i].maxsize

\* C7 witness: a consumer thread is at the put of a mailbox that is at capacity
C7_Witness ==
    \E k \in 1..Len(threads) :
        /\ threads[k].pc = "put"
        /\ Contains(players, threads[k].policy)
        /\ pending_actions[SeatOf(threads[k].policy)].maxsize > 0
        /\ Len(pending_actions[SeatOf(threads[k].policy)].q)
               = pending_actions[SeatOf(threads[k].policy)].maxsize

Committed == TickCommit /\ last'.ret \in {"ACTIVE", "DONE"}
OvercookedActions == {action_to_overcooked_action[a] : a \in DOMAIN action_to_overcooked_action}
                         \cup {"interact", "north"}

\* what a committing tick does to every seat: the oldest pending action, if any, is
\* removed and is the seat's entry of the joint action
CommitsInOrder ==
    Committed =>
        \A i \in 1..Len(pending_actions) :
            \/ /\ pending_actions[i].q = <<>>
               /\ pending_actions'[i].q = <<>>
               /\ joint_action'[i] = ActionSTAY
            \/ /\ pending_actions[i].q # <<>>
               /\ pending_actions'[i].q = Tail(pending_actions[i].q)
               /\ joint_action'[i] = Head(pending_actions[i].q)

\* C8 as claimed: a committing tick removes at most one action per seat, the oldest,
\* and that action is the seat's entry of this tick's joint action; outside a
\* committing tick a mailbox only grows at its tail, except that a deactivation
\* clears it.
C8_NoLossButDeactivation ==
    [][/\ CommitsInOrder
       /\ ~Committed =>
            \A i \in 1..Len(pending_actions) :
                \/ pending_actions'[i].q = pending_actions[i].q
                \/ \E a \in OvercookedActions :
                       pending_actions'[i].q = Append(pending_actions[i].q, a)
                \/ JoinDone /\ pending_actions'[i].q = <<>>]_vars

\* C8 amended: as claimed, except that an accepted action is also lost when
\* remove_player vacates its seat, when add_player replaces the mailbox of an occupied
\* seat, and when a tick raises at a vacant seat after draining the seats before it.
C8_NoLossButDiscard ==
    [][/\ CommitsInOrder
       /\ ~Committed =>
            \A i \in 1..Len(pending_actions) :
                \/ pending_actions'[i].q = pending_actions[i].q
                \/ \E a \in OvercookedActions :
                       pending_actions'[i].q = Append(pending_actions[i].q, a)
                \/ JoinDone /\ pending_actions'[i].q = <<>>
                \/ /\ \E id \in Ids : RemovePlayer(id)
                   /\ pending_actions'[i].vacant
                \/ /\ \E id \in Ids, idx \in 1..Len(players) : AddPlayer(id, idx)
                   /\ pending_actions'[i].q = <<>>
                \/ /\ TickCommit /\ last'.ret = "AttributeError"
                   /\ i < FirstVacant(pending_actions)
                   /\ pending_actions'[i].q = Tail(pending_actions[i].q)]_vars

\* C8 witness: a tick has committed the older of two pending actions of a seat and
\* left the newer one pending
C8_Witness ==
    /\ last = Result("tick", "none", "ACTIVE")
    /\ \E i \in 1..Len(pending_actions) :
           joint_action[i] = "north" /\ pending_actions[i].q = <<"interact">>

\* C9 as claimed: enqueue_action on a session that is not ACTIVE, or for an identity
\* that is not in the seat table, raises nothing and changes no state.
C9_StrayEnqueueSilent ==
    [][/\ \A id \in Humans, a \in RawActions :
              (ClientCall(id, a) /\ (~is_active \/ ~Contains(players, id))) =>
                  /\ last' = Result("enqueue_action", id, "None")
                  /\ UNCHANGED <<players, pending_actions, is_active, human_players,
                                 npc_players, npc_policies, npc_state_queues, layouts,
                                 has_state, state, start_time, curr_tick, score,
                                 threads, now, driver, clients, epoch>>
       /\ \A k \in 1..Len(threads) :
              (WorkerAct(k) /\ (~is_active \/ ~Contains(players, threads[k].policy))) =>
                  /\ threads'[k].pc = "loop"
                  /\ UNCHANGED <<players, pending_actions, is_active, human_players,
                                 npc_players, npc_policies, npc_state_queues, layouts,
                                 has_state, state, start_time, curr_tick, score,
                                 now, driver, clients, last, epoch>>]_vars

\* C9 amended: the same for every action name that is a key of
\* action_to_overcooked_action (any other name raises KeyError before the checks).
C9_StrayKnownEnqueueSilent ==
    [][/\ \A id \in Humans, a \in RawActions \cap DOMAIN action_to_overcooked_action :
              (ClientCall(id, a) /\ (~is_active \/ ~Contains(players, id))) =>
                  /\ last' = Result("enqueue_action", id, "None")
                  /\ UNCHANGED <<players, pending_actions, is_active, human_players,
                                 npc_players, npc_policies, npc_state_queues, layouts,
                                 has_state, state, start_time, curr_tick, score,
                                 threads, now, driver, clients, epoch>>
       /\ \A k \in 1..Len(threads) :
              (WorkerAct(k) /\ (~is_active \/ ~Contains(players, threads[k].policy))) =>
                  /\ threads'[k].pc = "loop"
                  /\ UNCHANGED <<players, pending_actions, is_active, human_players,
                                 npc_players, npc_policies, npc_state_queues, layouts,
                                 has_state, state, start_time, curr_tick, score,
                                 now, driver, clients, last, epoch>>]_vars

\* C9 witness: a call for an identity without a seat has returned on an active session
C9_Witness ==
    /\ last = Result("enqueue_action", "h1", "None")
    /\ is_active /\ ~Contains(players, "h1")
    /\ clients["h1"].pc = "idle"

\* C10: once deactivate() has returned the session is INACTIVE and every thread of
\* the activation has exited, so none of them takes a step until the next activate.
C10_DeactivatedMeansJoined ==
    /\ (driver.pc = "idle" /\ ~is_active) =>
           \A k \in 1..Len(threads) : threads[k].cur => threads[k].pc = "exited"
    /\ last = Result("deactivate", "none", "None") => (driver.pc = "join" \/ ~is_active)

\* C10 witness: deactivate has returned after its thread took the state pushed by
\* deactivate from the queue and exited
C10_Witness ==
    /\ last = Result("deactivate", "none", "None")
    /\ driver.pc = "idle"
    /\ \E k \in 1..Len(threads) :
           /\ threads[k].cur /\ threads[k].pc = "exited"
           /\ npc_state_queues[threads[k].policy] = <<>>

\* C11: deactivate() never raises, whether the session is ACTIVE, already INACTIVE or
\* was never activated, and it leaves the session INACTIVE.
C11_DeactivateAlwaysSafe ==
    last.op = "deactivate" => (last.ret = "None" /\ ~is_active)

\* C12: every relay is single-slot: it never holds more than one unconsumed state.
C12_RelaySingleSlot ==
    \A p \in NpcIds : Len(npc_state_queues[p]) <= 1

\* push order of the world states: activations in sequence, and within an activation
\* the transitions in sequence
Older(a, b) == a.ep < b.ep \/ (a.ep = b.ep /\ a.n < b.n)

\* C13: the states a worker takes from its relay are taken in push order: it never
\* takes a state that was pushed before the state it took last.
C13_ConsumesInPushOrder ==
    [][\A k \in 1..Len(threads) :
           WorkerGet(k) => ~Older(threads'[k].held, threads[k].seen)]_vars

\* C14: after deactivate() has returned every relay is empty, and a worker of the
\* running activation only holds states that were pushed during that activation.
C14_RelaysDrainedByDeactivate ==
    /\ (last = Result("deactivate", "none", "None") /\ driver.pc = "idle") =>
           \A p \in NpcIds : npc_state_queues[p] = <<>>
    /\ \A k \in 1..Len(threads) :
           (threads[k].cur /\ threads[k].pc \in {"act", "put"}) =>
               threads[k].held.ep = epoch

\* C15: from the return of deactivate() to the next activate() the mailbox of every
\* occupied seat is empty, also when enqueue_action calls race with the deactivation.
C15_MailboxesEmptyWhileDeactivated ==
    (has_state /\ ~is_active /\ driver.pc = "idle") =>
        \A i \in 1..Len(pending_actions) :
            ~pending_actions[i].vacant => pending_actions[i].q = <<>>

\* C16: when needs_reset() holds on an ACTIVE session the tick returns RESET and leaves
\* the session ACTIVE with a fresh round that has not expired, so the following ticks do
\* not reset again until that round expires.
C16_ResetOnceThenActive ==
    [][(JoinDone /\ driver.op = "reset") =>
          /\ last' = Result("tick", "none", "RESET")
          /\ is_active'
          /\ state' = StartState(epoch') /\ epoch' = epoch + 1
          /\ score' = 0
          /\ ~(now' - start_time' >= max_time)]_vars

\* C17: a reset puts the start time one reset pause after the moment of re-activation:
\* read one pause after the reset, the elapsed time of the new round is 0 and the time
\* left is the full round length.
C17_PauseCostsNoRoundTime ==
    [][(JoinDone /\ driver.op = "reset" /\ last'.ret = "RESET") =>
          /\ start_time' = now' + (reset_timeout \div 1000)
          /\ (time_elapsed(now + (reset_timeout \div 1000)))' = 0
          /\ (time_left(now + (reset_timeout \div 1000)))' = max_time]_vars

\* C17 witness: a tick was committed exactly one pause after a reset, with no time of
\* the new round elapsed and the whole round left
C17_Witness ==
    /\ epoch >= 2 /\ is_active
    /\ last = Result("tick", "none", "ACTIVE")
    /\ start_time >= reset_timeout \div 1000
    /\ time_elapsed(now) = 0 /\ time_left(now) = max_time

\* C18: a tick on an ACTIVE session that commits returns DONE exactly when no layout
\* remains and the round's time is over, and ACTIVE otherwise; the termination
\* predicate and needs_reset() never hold together.
C18_DoneIffFinished ==
    /\ [][(TickCommit /\ last'.ret \in {"ACTIVE", "DONE"}) =>
              (last'.ret = "DONE" <=> (layouts' = 0 /\ now' - start_time' >= max_time))]_vars
    /\ [](~(is_finished /\ needs_reset))

\* C18 witness: a tick has returned DONE on a session without remaining layouts whose
\* round is over
C18_Witness ==
    /\ last = Result("tick", "none", "DONE")
    /\ layouts = 0 /\ now - start_time >= max_time /\ is_active

VacantSeats(pl) == {i \in 1..Len(pl) : pl[i] = EMPTY}
LowestOf(S) == CHOOSE i \in S : \A j \in S : i <= j

\* C19: an add_player without seat index that succeeds puts the identity in the
\* lowest-indexed vacant seat if there is one and changes no other seat; it appends a
\* seat at the end of the table only when no seat is vacant.
C19_LowestVacantSeatFirst ==
    [][\A id \in SeatHumans :
           (AddPlayer(id, NoIdx) /\ last'.ret = "None") =>
               IF VacantSeats(players) # {}
               THEN /\ players' = [players EXCEPT ![LowestOf(VacantSeats(players))] = id]
                    /\ Len(pending_actions') = Len(players')
               ELSE /\ players' = Append(players, id)
                    /\ Len(pending_actions') = Len(players')]_vars

\* C19 witness: in the session built with an autonomous participant in seat 0, h1 was
\* appended as seat 1, the autonomous participant was removed, and h2, added without
\* index, sits in the vacated seat 0
C19_Witness ==
    /\ npc_policies = <<"ai_0">>
    /\ players = <<"h2", "h1">>
    /\ last = Result("add_player", "h2", "None")

\* C20: add_player on a session that is full or ACTIVE raises and changes neither the
\* seat table nor the mailboxes nor the role sets.
C20_FailedAddChangesNothing ==
    [][\A id \in SeatHumans, idx \in SeatIdx :
           (/\ AddPlayer(id, idx)
            /\ \/ Cardinality({i \in 1..Len(players) : players[i] # EMPTY}) >= max_players
               \/ is_active) =>
               /\ last' = Result("add_player", id, "ValueError")
               /\ UNCHANGED <<players, pending_actions, human_players, npc_players,
                              is_active>>]_vars

\* C20 witness: an add_player for h2 was refused on an active session that has a
\* vacant seat, and h2 is in no seat and in no role set
C20_Witness ==
    /\ last = Result("add_player", "h2", "ValueError")
    /\ is_active /\ has_state /\ Contains(players, EMPTY)
    /\ ~Contains(players, "h2") /\ "h2" \notin human_players

\* C21: remove_player returns true when the identity had a seat (the seat becomes
\* vacant, its mailbox is discarded, the identity leaves its role set) and returns
\* false, changing nothing, when the identity is not present.
C21_RemoveReportsPresence ==
    [][\A id \in SeatHumans \cup NpcIds :
           RemovePlayer(id) =>
               IF Contains(players, id)
               THEN /\ last' = Result("remove_player", id, "True")
                    /\ players' = [players EXCEPT ![SeatOf(id)] = EMPTY]
                    /\ pending_actions'[SeatOf(id)].vacant
                    /\ id \notin (human_players' \cup npc_players')
               ELSE /\ last' = Result("remove_player", id, "False")
                    /\ UNCHANGED <<players, pending_actions, human_players,
                                   npc_players>>]_vars

\* C22: no identity occupies more than one seat.
C22_OneSeatPerIdentity ==
    \A i, j \in 1..Len(players) :
        (i # j /\ players[i] # EMPTY) => players[i] # players[j]

\* C23: the seat list and the mailbox list have the same length, seat i is vacant
\* exactly when mailbox slot i holds the vacant sentinel, and the mailbox of an
\* occupied seat is a queue.
C23_SeatsAndMailboxesAligned ==
    /\ Len(pending_actions) = Len(players)
    /\ \A i \in 1..Len(players) :
           /\ (players[i] = EMPTY) <=> pending_actions[i].vacant
           /\ players[i] # EMPTY =>
                  (pending_actions[i].q \in Seq(OvercookedActions)
                       /\ pending_actions[i].maxsize \in {NpcBuffSize, DefaultBuffSize})

\* C23 witness: a table of two seats after a removal, one seat vacant with the
\* sentinel in its mailbox slot, the other occupied with a queue
C23_Witness ==
    /\ last.op = "remove_player"
    /\ Len(players) = 2 /\ Len(pending_actions) = 2
    /\ \E i, j \in 1..2 :
           /\ players[i] = EMPTY /\ pending_actions[i].vacant
           /\ players[j] # EMPTY /\ ~pending_actions[j].vacant

\* C24: a committing tick pushes the new world state to the queue of every autonomous
\* participant exactly when the tick index within the activation (activate sets the
\* counter to 0, every tick adds one) is a multiple of ticks_per_ai_action, no other
\* tick writes a queue, and a tick is never held up by the queues.
C24_PushEveryStride ==
    /\ [][(TickCommit /\ last'.ret \in {"ACTIVE", "DONE"}) =>
              IF (curr_tick + 1) % ticks_per_ai_action = 0
              THEN \A p \in NpcIds :
                       npc_state_queues'[p] =
                           IF Contains(npc_policies, p)
                           THEN Append(npc_state_queues[p], state')
                           ELSE npc_state_queues[p]
              ELSE UNCHANGED npc_state_queues]_vars
    /\ [][(TickCall => curr_tick' = curr_tick + 1)
            /\ ((Activate /\ last'.ret = "None") => curr_tick' = 0)]_vars
    /\ []((driver.pc = "idle" /\ is_active /\ has_state /\ ~needs_reset)
              => ENABLED TickCommit)

\* C24 witness: the seventh tick of the activation has been committed and its state
\* is in the queue of the autonomous participant
C24_Witness ==
    /\ last = Result("tick", "none", "ACTIVE")
    /\ curr_tick = ticks_per_ai_action /\ state.n = ticks_per_ai_action
    /\ \E p \in NpcIds :
           /\ Len(npc_state_queues[p]) > 0
           /\ npc_state_queues[p][Len(npc_state_queues[p])] = state

WorkerOf(k) == WorkerLoop(k) \/ WorkerGet(k) \/ WorkerAct(k) \/ WorkerPut(k)
ClientOf(id) == (\E a \in RawActions : ClientCall(id, a)) \/ ClientPut(id)
\* the fields of the session other than the mailboxes and the state queues
SessionKept == UNCHANGED <<players, is_active, human_players, npc_players, npc_policies,
                           layouts, has_state, state, start_time, curr_tick, score,
                           spectators, traj, save_traj>>
\* no mailbox but the one of the seat of id is changed
OnlyMailboxOf(id) ==
    IF Contains(players, id)
    THEN /\ Len(pending_actions') = Len(pending_actions)
         /\ \A i \in 1..Len(pending_actions) :
                i # SeatOf(id) => pending_actions'[i] = pending_actions[i]
    ELSE pending_actions' = pending_actions
\* no state queue but the one of id is changed, and that one only by taking its
\* newest entry
OnlyTakesFrom(id) ==
    \A p \in DOMAIN npc_state_queues :
        \/ npc_state_queues'[p] = npc_state_queues[p]
        \/ /\ p = id
           /\ Len(npc_state_queues[p]) > 0
           /\ npc_state_queues'[p] =
                  SubSeq(npc_state_queues[p], 1, Len(npc_state_queues[p]) - 1)
\* the world state, the score and the tick counter change only in a tick, in
\* activate() and in the re-activation of a reset
WorldByDriverOnly ==
    (state' # state \/ score' # score \/ curr_tick' # curr_tick)
        => (TickCall \/ Activate \/ JoinDone)

\* C26 as claimed: the world state, the score and the tick counter are changed only
\* by tick, activate and deactivate/reset; a step of a consumer thread changes no
\* field of the session except the mailbox of its own seat, and an enqueue_action of
\* a human changes no field of the session except the mailbox of that identity.
C26_WorkerTouchesOnlyMailbox ==
    [][/\ WorldByDriverOnly
       /\ \A k \in 1..Len(threads) :
              WorkerOf(k) => /\ SessionKept
                             /\ OnlyMailboxOf(threads[k].policy)
                             /\ UNCHANGED npc_state_queues
       /\ \A id \in Humans :
              ClientOf(id) => /\ SessionKept
                              /\ OnlyMailboxOf(id)
                              /\ UNCHANGED npc_state_queues]_vars

\* C26 amended: as claimed, except that a step of a consumer thread also takes the
\* newest state out of its own state queue; it changes no other state queue.
C26_WorkerTouchesMailboxAndOwnQueue ==
    [][/\ WorldByDriverOnly
       /\ \A k \in 1..Len(threads) :
              WorkerOf(k) => /\ SessionKept
                             /\ OnlyMailboxOf(threads[k].policy)
                             /\ OnlyTakesFrom(threads[k].policy)
       /\ \A id \in Humans :
              ClientOf(id) => /\ SessionKept
                              /\ OnlyMailboxOf(id)
                              /\ UNCHANGED npc_state_queues]_vars

\* C26 witness: after a committed tick that scored, the consumer thread has taken a
\* state and put its action, and an enqueue_action of the human has put one as well
C26_Witness ==
    /\ is_active /\ state.n > 0 /\ score > 0
    /\ last = Result("enqueue_action", "h1", "None")
    /\ Contains(players, "h1") /\ Len(pending_actions[SeatOf("h1")].q) > 0
    /\ \E k \in 1..Len(threads) :
           /\ threads[k].cur /\ threads[k].pc = "loop" /\ threads[k].seen # NoState
           /\ Contains(players, threads[k].policy)
           /\ Len(pending_actions[SeatOf(threads[k].policy)].q) > 0

C28_ResetRaisesOrReportsReset ==
    [][/\ (ResetCall /\ ~is_active) =>
              /\ last' = Result("reset", "none", "ValueError")
              /\ SessionKept
              /\ UNCHANGED <<pending_actions, npc_state_queues, threads>>
       /\ (JoinDone /\ driver.op = "resetcall") =>
              /\ is_active' /\ epoch' = epoch + 1 /\ state' = StartState(epoch')
              /\ last' = Result("reset", "none", "RESET")]_vars

C30_RemoveSpectatorReportsPresence ==
    [][\A id \in SeatHumans :
           RemoveSpectator(id) =>
               IF id \in spectators
               THEN /\ last' = Result("remove_spectator", id, "True")
                    /\ spectators' = spectators \ {id}
               ELSE /\ last' = Result("remove_spectator", id, "False")
                    /\ spectators' = spectators]_vars

\* ------------------------------------------------------------ C31
\* a tick that has applied its joint action to the world model
Stepped == TickCommit /\ state' # state
\* the sparse reward of the joint action the tick has built
StepReward ==
    IF Len(joint_action') > 0 /\ \A i \in 1..Len(joint_action') : joint_action'[i] = "interact"
    THEN 20 ELSE 0

\* C31: within one activation the score is the sum of the rewards of the ticks
\* committed since that activation: a committing tick applies exactly one transition
\* of the world model and adds the reward of that transition to the score, an
\* activation starts the score at 0, and no other step changes the score or the world
\* state.
C31_ScoreIsSumOfRewards ==
    /\ [][IF Stepped
           THEN /\ state' = [state EXCEPT !.n = @ + 1]
                /\ score' = score + StepReward
           ELSE \/ /\ score' = score
                   /\ state' = state
                \/ /\ Activate \/ JoinDone
                   /\ epoch' = epoch + 1
                   /\ score' = 0
                   /\ state' = StartState(epoch')]_vars
    /\ [](score \in {20 * k : k \in 0..state.n})

\* C31 witness: two ticks of one activation have been committed, one with a reward and
\* one without, and the score is the reward of the first
C31_Witness ==
    /\ is_active /\ state.n = 2 /\ score = 20
    /\ last = Result("tick", "none", "ACTIVE")

\* ------------------------------------------------------------ C32
\* the step in which a tick returns RESET
ResetReturned ==
    /\ (JoinDone /\ driver.op = "reset") \/ ResetActivated
    /\ last' = Result("tick", "none", "RESET")

\* C32: a tick that returns RESET takes no action out of a mailbox into a joint action
\* and applies none to the world model, and when it returns the session is active,
\* the world state is the start state, the score and the tick counter are 0, every
\* mailbox is empty, and there is exactly one thread per autonomous participant, newly
\* started, every thread of the round before having exited.
C32_ResetStartsClean ==
    [][/\ TickReset => /\ pending_actions' = pending_actions
                        /\ state' = state /\ score' = score
       /\ ResetReturned =>
              /\ joint_action' = <<>>
              /\ is_active'
              /\ state' = StartState(epoch') /\ epoch' = epoch + 1
              /\ score' = 0 /\ curr_tick' = 0
              /\ \A i \in 1..Len(pending_actions') : pending_actions'[i].q = <<>>
              /\ Len(threads') = Len(npc_policies')
              /\ \A k \in 1..Len(threads') :
                     /\ threads'[k].policy = npc_policies'[k]
                     /\ threads'[k].cur /\ threads'[k].pc = "loop"]_vars

LiveWorkers(p) == {k \in 1..Len(threads) : threads[k].policy = p /\ threads[k].pc # "exited"}

\* C34: at every moment there is at most one live thread per autonomous participant,
\* and every thread that was ever started is the current one of its participant or
\* has exited, also when activate() is called on an active session.
C34_OneLiveWorkerPerParticipant ==
    /\ \A p \in NpcIds : Cardinality(LiveWorkers(p)) <= 1
    /\ \A k \in 1..Len(threads) : threads[k].cur \/ threads[k].pc = "exited"

\* ------------------------------------------------------------ C35
\* C35: an add_player that succeeds evicts nobody: every identity that had a seat
\* keeps it, with its own mailbox, and an explicit seat index k is used only for a
\* seat that is vacant or beyond the end of the table.
C35_AddEvictsNobody ==
    [][\A id \in SeatHumans, idx \in SeatIdx :
           (AddPlayer(id, idx) /\ last'.ret = "None") =>
               /\ \A i \in 1..Len(players) :
                      players[i] # EMPTY =>
                          /\ players'[i] = players[i]
                          /\ pending_actions'[i] = pending_actions[i]
               /\ idx >= 1 => (idx + 1 > Len(players) \/ players[idx + 1] = EMPTY)]_vars

\* ------------------------------------------------------------ C36
\* the identities that occupy a seat
Occupants == SetOf(players) \ {EMPTY}

\* C36: after any sequence of add_player and remove_player the human set and the
\* autonomous set are disjoint and their union is the set of the identities that occupy
\* a seat, so the consistency check of activate() passes whenever no seat is vacant.
C36_RoleSetsMatchSeats ==
    /\ human_players \cap npc_players = {}
    /\ human_players \cup npc_players = Occupants
    /\ ~Contains(players, EMPTY) => Consistent

\* ------------------------------------------------------------ C37
\* the seats that hold an identity
OccupiedSeats == {i \in 1..Len(players) : players[i] # EMPTY}

\* C37: the number of occupied seats never exceeds max_players, whatever sequence of
\* add_player (with or without seat index) and remove_player has run, also when the
\* seat table is longer than max_players.
C37_OccupiedWithinCapacity ==
    Cardinality(OccupiedSeats) <= max_players

\* C37 witness: the table is longer than the capacity, as many seats as the capacity
\* allows are occupied, and an add_player has been refused
C37_Witness ==
    /\ Len(players) > max_players
    /\ Cardinality(OccupiedSeats) = max_players
    /\ last.op = "add_player" /\ last.ret = "ValueError"

\* ------------------------------------------------------------ C38
\* the step in which the enqueue_action call of an identity that has passed the two
\* checks returns or raises
EnqueueReturned(id) == clients[id].pc = "put" /\ clients'[id].pc = "idle"

\* C38: an enqueue_action call that runs concurrently with remove_player of the same
\* identity, or with a tick that drains its seat, never raises and corrupts no mailbox:
\* it ends without an exception, and it either appends its action to the mailbox of a
\* seat the identity holds, every other mailbox unchanged, or changes no mailbox at all.
C38_EnqueueRaceIsPutOrNoOp ==
    [][\A id \in Humans :
           EnqueueReturned(id) =>
               /\ last' = Result("enqueue_action", id, "None")
               /\ \/ pending_actions' = pending_actions
                  \/ \E i \in 1..Len(players) :
                         /\ players[i] = id
                         /\ pending_actions' =
                                [pending_actions EXCEPT ![i].q =
                                     Append(@, clients[id].act)]]_vars

====
